---- MODULE Spec2Model ----
(***************************************************************************)
(* The two CRUD controllers of workout_api:                                *)
(*   workout_api/categorias/controller.py          (entity "categoria")    *)
(*   workout_api/centro_treinamento/controller.py  (entity "centro")       *)
(* Each handler is a coroutine: it suspends at every `await` on the        *)
(* database session, so a handler that reads and then writes is two        *)
(* database steps, between which other requests may run.  The handlers     *)
(* that only read the table perform one database step.                     *)
(* The two routers share no state (one table each), so a behaviour fixes   *)
(* in `entity` the router under analysis and follows its table.            *)
(***************************************************************************)
EXTENDS Integers, Sequences, FiniteSets

VARIABLES
    entity,      \* which router/table the behaviour follows
    store,       \* the table: sequence of rows, in insertion order
    reqs,        \* request slot -> the handler suspended in it, if any
    last,        \* the handler step taken last: its request and, if it ended, its response
    nextId,      \* uuid4(): the next identifier that has never been drawn
    everStored,  \* history: ids of every row that was ever committed
    tally        \* history, kept in the two-creates scenario only: the nome the
                 \* two requests carry and the answers given so far

vars == <<entity, store, reqs, last, nextId, everStored, tally>>

(***************************** bounds **************************************)
MaxReq == 2      \* requests in flight at the same time
MaxIds == 2      \* uuid4() draws in one behaviour

(************************** program constants ******************************)
LimitMin == 1    \* Query(10, ge=1, le=100)
LimitMax == 100
OffsetMin == 0   \* Query(0, ge=0)

HTTP_200_OK == 200
HTTP_201_CREATED == 201
HTTP_204_NO_CONTENT == 204
HTTP_404_NOT_FOUND == 404
HTTP_409_CONFLICT == 409
HTTP_422_UNPROCESSABLE == 422
HTTP_500_INTERNAL_SERVER_ERROR == 500

(***************************** schemas *************************************)
Entities == {"categoria", "centro"}
Reqs == 1..MaxReq
IdInputs == 1..MaxIds

\* Two names that differ by case only: the lookup is an exact match.
Nomes == {"cardio", "Cardio"}
Enderecos == {"rua 1", "rua 2"}

\* Fields of the input schema (CategoriaIn / CentroTreinamentoIn).  The
\* training centre's descriptive fields are handled alike by the handlers;
\* `endereco` stands for them.
Fields(e) == IF e = "categoria" THEN {"nome"} ELSE {"nome", "endereco"}

FieldValues(f) == IF f = "nome" THEN Nomes ELSE Enderecos

\* Bodies accepted on create: every field of the schema is set.
CreateBodies(e) ==
    {b \in [Fields(e) -> Nomes \cup Enderecos] :
        \A f \in Fields(e) : b[f] \in FieldValues(f)}

\* Bodies accepted on update: any subset of the fields is set
\* (model_dump(exclude_unset=True) yields exactly the fields that were sent).
UpdateBodies(e) ==
    UNION {{b \in [fs -> Nomes \cup Enderecos] :
                \A f \in fs : b[f] \in FieldValues(f)} : fs \in SUBSET Fields(e)}

NoBody == [f \in {} |-> ""]

(************************ pure helpers of the handlers *********************)
Min(a, b) == IF a <= b THEN a ELSE b
Max(a, b) == IF a >= b THEN a ELSE b

RECURSIVE SelectRows(_, _, _)
\* rows of s whose field f equals v, in table order
SelectRows(s, f, v) ==
    IF s = <<>> THEN <<>>
    ELSE IF Head(s)[f] = v
         THEN <<Head(s)>> \o SelectRows(Tail(s), f, v)
         ELSE SelectRows(Tail(s), f, v)

\* mutant: the filter on the id is left out
FindByIdUnfiltered(s, id) == s

\* select(Model).filter_by(id=id)
FindById(s, id) == SelectRows(s, "id", id)

Lower(nome) == IF nome = "Cardio" THEN "cardio" ELSE nome

\* mutant: the nome is matched without regard to case
FindByNomeIgnoreCase(s, nome) ==
    SelectSeq(s, LAMBDA row : Lower(row["nome"]) = Lower(nome))

\* select(Model).filter_by(nome=nome)
FindByNome(s, nome) == SelectRows(s, "nome", nome)

\* mutant: .first() where .all() is meant
SelectAllFirst(s) == IF s = <<>> THEN <<>> ELSE <<Head(s)>>

\* select(Model) ... .scalars().all(): every row of the table
SelectAll(s) == s

\* mutant: the identifier is a constant instead of a fresh draw
Uuid4Constant(n) == 1

\* uuid4(): an identifier that was never drawn before
Uuid4(n) == n

\* .scalars().first(): the first row of the result, or nothing
First(rows) == IF rows = <<>> THEN <<>> ELSE <<Head(rows)>>

\* Out(id=uuid4(), **in.model_dump()) and Model(**out.model_dump())
ModelOf(id, body) ==
    [f \in DOMAIN body \cup {"id"} |-> IF f = "id" THEN id ELSE body[f]]

\* mutant: a full replace, the fields the patch leaves out are blanked
ApplyPatchReplace(row, patch) ==
    [f \in DOMAIN row |-> IF f \in DOMAIN patch THEN patch[f]
                          ELSE IF f = "id" THEN row[f] ELSE ""]

\* for key, value in update.items(): setattr(row, key, value)
ApplyPatch(row, patch) ==
    [f \in DOMAIN row |-> IF f \in DOMAIN patch THEN patch[f] ELSE row[f]]

\* position of the row with this primary key, 0 when there is none
IndexOf(s, id) ==
    IF \E i \in DOMAIN s : s[i]["id"] = id
    THEN CHOOSE i \in DOMAIN s : s[i]["id"] = id
    ELSE 0

\* mutant: the delete is never written
DeleteRowNotWritten(s, id) == s

\* session.delete(row); commit(): the table without the row with this key
DeleteRow(s, id) == SelectSeq(s, LAMBDA row : row["id"] # id)

\* the table's constraints: `id` is the primary key, `nome` is unique
PrimaryKeyTaken(s, id) == \E i \in DOMAIN s : s[i]["id"] = id

\* mutant: the table has no unique constraint on nome
NomeTakenNoConstraint(s, nome, id) == FALSE

NomeTaken(s, nome, id) ==
    \E i \in DOMAIN s : s[i]["nome"] = nome /\ s[i]["id"] # id

\* fastapi_pagination.paginate(rows) under the request's page/size parameters
Paginate(rows, page, size) ==
    [items |-> SubSeq(rows, (page - 1) * size + 1, Min(page * size, Len(rows))),
     total |-> Len(rows), page |-> page, size |-> size]

NoMeta == [total |-> 0, page |-> 0, size |-> 0]

(****************************** requests ***********************************)
\* a slot with no handler running in it
Idle == [op |-> "none", pc |-> "idle", id |-> 0, body |-> NoBody]

\* a handler suspended at its commit: the row it loaded or built, and its body
Pending(op, id, body) == [op |-> op, pc |-> "commit", id |-> id, body |-> body]

\* a request line; status 0 while the handler has not answered
Call(op, id, nome) ==
    [op |-> op, id |-> id, nome |-> nome, limit |-> 0, offset |-> 0,
     status |-> 0, result |-> <<>>, meta |-> NoMeta]

\* a new request is served in the first slot that runs no handler
NoTally == [nome |-> "", answers |-> <<>>]

Free(r) == reqs[r].pc = "idle" /\ \A q \in 1..(r - 1) : reqs[q].pc # "idle"

Init ==
    /\ entity \in Entities
    /\ store = <<>>
    /\ reqs = [r \in Reqs |-> Idle]
    /\ last = Call("none", 0, "")
    /\ nextId = 1
    /\ everStored = {}
    /\ tally = NoTally

\* the handler in slot r returns or raises: the response goes out, the slot is free
Respond(r, call, status, result) ==
    /\ last' = [call EXCEPT !.status = status, !.result = result]
    /\ reqs' = [reqs EXCEPT ![r] = Idle]
    /\ tally' = IF tally.nome # "" /\ call.op = "post"
                THEN [tally EXCEPT !.answers = Append(@, status)]
                ELSE tally

\* the handler in slot r suspends at its commit
Suspend(r, call, pending) ==
    /\ last' = call
    /\ reqs' = [reqs EXCEPT ![r] = pending]
    /\ UNCHANGED tally

(******************************* POST / ************************************)
\* post, up to the suspension at `await db_session.commit()`
post_select(r, body) ==
    /\ Free(r)
    /\ LET existente == First(FindByNome(store, body["nome"]))
           call == Call("post", 0, body["nome"])
       IN  IF existente # <<>>
           THEN /\ Respond(r, call, HTTP_409_CONFLICT, <<>>)
                /\ UNCHANGED nextId
           ELSE /\ nextId <= MaxIds
                /\ Suspend(r, call, Pending("post", Uuid4(nextId), body))
                /\ nextId' = nextId + 1
    /\ UNCHANGED <<entity, store, everStored>>

\* post, the commit of the INSERT and the response
post_commit(r) ==
    /\ reqs[r].pc = "commit"
    /\ reqs[r].op = "post"
    /\ LET out == ModelOf(reqs[r].id, reqs[r].body)
           call == Call("post", 0, out["nome"])
       IN  IF PrimaryKeyTaken(store, out["id"]) \/ NomeTaken(store, out["nome"], out["id"])
           THEN /\ Respond(r, call, HTTP_500_INTERNAL_SERVER_ERROR, <<>>)
                /\ UNCHANGED <<store, everStored>>
           ELSE /\ store' = Append(store, out)
                /\ everStored' = everStored \cup {out["id"]}
                /\ Respond(r, call, HTTP_201_CREATED, <<out>>)
    /\ UNCHANGED <<entity, nextId>>

(******************************** GET / ************************************)
\* query (the list handler): every row, 404 when there is none
query(r) ==
    /\ Free(r)
    /\ LET rows == SelectAll(store)
       IN  IF rows = <<>>
           THEN Respond(r, Call("query", 0, ""), HTTP_404_NOT_FOUND, <<>>)
           ELSE Respond(r, Call("query", 0, ""), HTTP_200_OK, rows)
    /\ UNCHANGED <<entity, store, nextId, everStored>>

(****************************** GET /{id} **********************************)
get(r, id) ==
    /\ Free(r)
    /\ LET row == First(FindById(store, id))
       IN  IF row = <<>>
           THEN Respond(r, Call("get", id, ""), HTTP_404_NOT_FOUND, <<>>)
           ELSE Respond(r, Call("get", id, ""), HTTP_200_OK, row)
    /\ UNCHANGED <<entity, store, nextId, everStored>>

(*************************** GET /nome/{nome} ******************************)
\* mutant: the handler carries the body of delete_by_nome up to its commit
get_by_nome_deleting(r, nome) ==
    /\ Free(r)
    /\ LET row == First(FindByNome(store, nome))
       IN  IF row = <<>>
           THEN /\ Respond(r, Call("get_by_nome", 0, nome), HTTP_404_NOT_FOUND, <<>>)
                /\ UNCHANGED store
           ELSE /\ store' = DeleteRow(store, row[1]["id"])
                /\ Respond(r, Call("get_by_nome", 0, nome), HTTP_200_OK, row)
    /\ UNCHANGED <<entity, nextId, everStored>>

get_by_nome(r, nome) ==
    /\ Free(r)
    /\ LET row == First(FindByNome(store, nome))
       IN  IF row = <<>>
           THEN Respond(r, Call("get_by_nome", 0, nome), HTTP_404_NOT_FOUND, <<>>)
           ELSE Respond(r, Call("get_by_nome", 0, nome), HTTP_200_OK, row)
    /\ UNCHANGED <<entity, store, nextId, everStored>>

(************************ GET /<entity>/ (paginated) ***********************)
\* query (the paginated handler): limit and offset are validated by Query(...)
\* and then not used; paginate() pages the rows by the request's page and size.
query_page(r, limit, offset, page, size) ==
    /\ Free(r)
    /\ LET call == [Call("query_page", 0, "") EXCEPT !.limit = limit, !.offset = offset]
       IN  IF limit < LimitMin \/ limit > LimitMax \/ offset < OffsetMin
           THEN Respond(r, call, HTTP_422_UNPROCESSABLE, <<>>)
           ELSE LET pg == Paginate(SelectAll(store), page, size)
                IN  Respond(r, [call EXCEPT !.meta = [total |-> pg.total,
                                                      page |-> pg.page,
                                                      size |-> pg.size]],
                            HTTP_200_OK, pg.items)
    /\ UNCHANGED <<entity, store, nextId, everStored>>

(******************************* PATCH *************************************)
\* patch, up to the suspension at `await db_session.commit()`
patch_select(r, id, body) ==
    /\ Free(r)
    /\ LET row == First(FindById(store, id))
       IN  IF row = <<>>
           THEN Respond(r, Call("patch", id, ""), HTTP_404_NOT_FOUND, <<>>)
           ELSE Suspend(r, Call("patch", id, ""), Pending("patch", row[1]["id"], body))
    /\ UNCHANGED <<entity, store, nextId, everStored>>

\* patch_by_nome, up to the suspension at `await db_session.commit()`
patch_by_nome_select(r, nome, body) ==
    /\ Free(r)
    /\ LET row == First(FindByNome(store, nome))
       IN  IF row = <<>>
           THEN Respond(r, Call("patch_by_nome", 0, nome), HTTP_404_NOT_FOUND, <<>>)
           ELSE Suspend(r, Call("patch_by_nome", 0, nome),
                        Pending("patch_by_nome", row[1]["id"], body))
    /\ UNCHANGED <<entity, store, nextId, everStored>>

\* patch / patch_by_nome: the commit of the UPDATE of the loaded row, the refresh
\* and the response.  The UPDATE carries the assigned attributes only.  It raises
\* when the row is gone or when the new nome is held by another row; the handler
\* does not catch, so the request ends as a server error and nothing is written.
patch_commit(r) ==
    /\ reqs[r].pc = "commit"
    /\ reqs[r].op \in {"patch", "patch_by_nome"}
    /\ LET i == IndexOf(store, reqs[r].id)
           patch == reqs[r].body
           call == Call(reqs[r].op, reqs[r].id, "")
       IN  IF i = 0
           THEN /\ Respond(r, call, HTTP_500_INTERNAL_SERVER_ERROR, <<>>)
                /\ UNCHANGED store
           ELSE IF "nome" \in DOMAIN patch /\ NomeTaken(store, patch["nome"], reqs[r].id)
           THEN /\ Respond(r, call, HTTP_500_INTERNAL_SERVER_ERROR, <<>>)
                /\ UNCHANGED store
           ELSE /\ store' = [store EXCEPT ![i] = ApplyPatch(store[i], patch)]
                /\ Respond(r, call, HTTP_200_OK, <<store'[i]>>)
    /\ UNCHANGED <<entity, nextId, everStored>>

(******************************* DELETE ************************************)
\* delete, up to the suspension at `await db_session.delete(...)`
delete_select(r, id) ==
    /\ Free(r)
    /\ LET row == First(FindById(store, id))
       IN  IF row = <<>>
           THEN Respond(r, Call("delete", id, ""), HTTP_404_NOT_FOUND, <<>>)
           ELSE Suspend(r, Call("delete", id, ""), Pending("delete", row[1]["id"], NoBody))
    /\ UNCHANGED <<entity, store, nextId, everStored>>

\* delete_by_nome, up to the suspension at `await db_session.delete(...)`
delete_by_nome_select(r, nome) ==
    /\ Free(r)
    /\ LET row == First(FindByNome(store, nome))
       IN  IF row = <<>>
           THEN Respond(r, Call("delete_by_nome", 0, nome), HTTP_404_NOT_FOUND, <<>>)
           ELSE Suspend(r, Call("delete_by_nome", 0, nome),
                        Pending("delete_by_nome", row[1]["id"], NoBody))
    /\ UNCHANGED <<entity, store, nextId, everStored>>

\* delete / delete_by_nome: the commit of the DELETE of the loaded row.  A row
\* that is already gone makes the DELETE match nothing, which the session
\* reports as a warning, not an exception.
delete_commit(r) ==
    /\ reqs[r].pc = "commit"
    /\ reqs[r].op \in {"delete", "delete_by_nome"}
    /\ store' = DeleteRow(store, reqs[r].id)
    /\ Respond(r, Call(reqs[r].op, reqs[r].id, ""), HTTP_204_NO_CONTENT, <<>>)
    /\ UNCHANGED <<entity, nextId, everStored>>

(***************************** inputs **************************************)
LimitInputs == {0, 1, 101}
OffsetInputs == {0, 1}
PageInputs == {1, 2}
SizeInputs == {1, 2}

Next ==
    \E r \in Reqs :
        \/ \E body \in CreateBodies(entity) : post_select(r, body)
        \/ post_commit(r)
        \/ query(r)
        \/ \E id \in IdInputs : get(r, id)
        \/ \E nome \in Nomes : get_by_nome(r, nome)
        \/ \E limit \in LimitInputs, offset \in OffsetInputs,
              page \in PageInputs, size \in SizeInputs :
                query_page(r, limit, offset, page, size)
        \/ \E id \in IdInputs, body \in UpdateBodies(entity) : patch_select(r, id, body)
        \/ \E nome \in Nomes, body \in UpdateBodies(entity) :
                patch_by_nome_select(r, nome, body)
        \/ patch_commit(r)
        \/ \E id \in IdInputs : delete_select(r, id)
        \/ \E nome \in Nomes : delete_by_nome_select(r, nome)
        \/ delete_commit(r)

Spec == Init /\ [][Next]_vars

(***************************************************************************)
(* The two-creates scenario: on a table that holds no row with a given     *)
(* nome, two POST requests carrying that nome are served, their database   *)
(* steps interleaved in every order; the table may be read meanwhile.      *)
(***************************************************************************)
Started == Len(tally.answers) + Cardinality({r \in Reqs : reqs[r].pc = "commit"})

RaceInit ==
    /\ entity \in Entities
    /\ store = <<>>
    /\ reqs = [r \in Reqs |-> Idle]
    /\ last = Call("none", 0, "")
    /\ nextId = 1
    /\ everStored = {}
    /\ tally \in {[nome |-> n, answers |-> <<>>] : n \in Nomes}

RaceNext ==
    \E r \in Reqs :
        \/ /\ Started < 2
           /\ \E body \in CreateBodies(entity) :
                 body["nome"] = tally.nome /\ post_select(r, body)
        \/ post_commit(r)
        \/ get_by_nome(r, tally.nome)
        \/ query(r)

SpecRace == RaceInit /\ [][RaceNext]_vars

(***************************************************************************)
(*                              Properties                                  *)
(***************************************************************************)
Ids(s) == {s[i]["id"] : i \in DOMAIN s}
RowsWithId(s, id) == {i \in DOMAIN s : s[i]["id"] = id}
RowsWithNome(s, nome) == {i \in DOMAIN s : s[i]["nome"] = nome}
ByIdOps == {"get", "patch", "delete"}
ByNomeOps == {"get_by_nome", "patch_by_nome", "delete_by_nome"}
ReadOps == {"query", "query_page", "get", "get_by_nome"}
\* the slot whose handler took the step
Stepped(r) == reqs'[r] # reqs[r]

\* C1: in every reachable state no two rows of the table carry the same nome,
\* whatever creates, updates (also those that carry a new nome) and deletes ran.
C1_NomeUnique ==
    \A i, j \in DOMAIN store : i # j => store[i]["nome"] # store[j]["nome"]

\* C1 witness: an update that would have given a row the nome of another row
\* was answered with a server error, both rows still in the table.
C1_Witness ==
    /\ Len(store) = 2
    /\ last.op \in {"patch", "patch_by_nome"}
    /\ last.status = HTTP_500_INTERNAL_SERVER_ERROR
    /\ last.id \in Ids(store)

\* C2 (as claimed): once both creates of the scenario are answered, the table
\* holds exactly one row with their nome and at least one answer is 409.
C2_OneRowAndConflict ==
    Len(tally.answers) = 2 =>
        /\ Cardinality(RowsWithNome(store, tally.nome)) = 1
        /\ \E k \in DOMAIN tally.answers : tally.answers[k] = HTTP_409_CONFLICT

\* C3: a create answered 201 returns the body's fields under an id no row ever
\* had, and the table then holds exactly that row under that id and that nome;
\* a row stays as it is until an update or delete of it commits; and
\* get / get_by_nome answer with the row as the table holds it.
C3_CreateThenGet ==
    [][ /\ (last'.op = "post" /\ last'.status = HTTP_201_CREATED) =>
            \E r \in Reqs :
                /\ Stepped(r)
                /\ LET out == last'.result[1]
                       body == reqs[r].body
                   IN  /\ DOMAIN out = DOMAIN body \cup {"id"}
                       /\ \A f \in DOMAIN body : out[f] = body[f]
                       /\ out["id"] \notin everStored
                       /\ First(FindById(store', out["id"])) = <<out>>
                       /\ First(FindByNome(store', out["nome"])) = <<out>>
        /\ \A i \in DOMAIN store :
              \/ \E j \in DOMAIN store' : store'[j] = store[i]
              \/ /\ last'.op \in {"patch", "patch_by_nome", "delete", "delete_by_nome"}
                 /\ last'.id = store[i]["id"]
        /\ (last'.op = "get" /\ last'.status = HTTP_200_OK) =>
              \E i \in DOMAIN store :
                  store[i]["id"] = last'.id /\ last'.result = <<store[i]>>
        /\ (last'.op = "get_by_nome" /\ last'.status = HTTP_200_OK) =>
              \E i \in DOMAIN store :
                  store[i]["nome"] = last'.nome /\ last'.result = <<store[i]>>
      ]_vars

\* C3 witness: after a create, a get by the new row's id returned the row.
C3_Witness ==
    /\ last.op = "get"
    /\ last.status = HTTP_200_OK
    /\ last.result = <<store[Len(store)]>>
    /\ Len(store) = 2

\* C4: the lookup step of a create answers 409 exactly when a row with exactly
\* the body's nome is in the table at that moment; otherwise it goes on to the
\* insert (and only then can it end 201 or 500).
C4_ConflictIffNomeStored ==
    [][ (last'.op = "post" /\ last'.status \in {0, HTTP_409_CONFLICT}) =>
            ((RowsWithNome(store, last'.nome) # {}) <=>
                (last'.status = HTTP_409_CONFLICT)) ]_vars

\* C4 witness: a create was refused with 409 while the table also holds a row
\* whose nome differs from the refused one (by case only, in this model).
C4_Witness ==
    /\ last.op = "post"
    /\ last.status = HTTP_409_CONFLICT
    /\ Len(store) = 2

\* C5: a delete by id answered 204 leaves no row with that id; an id that had a
\* row and has none never gets one again; and a get by an id without a row is
\* answered 404.
C5_DeletedStaysNotFound ==
    [][ /\ (last'.op = "delete" /\ last'.status = HTTP_204_NO_CONTENT) =>
              last'.id \notin Ids(store')
        /\ \A id \in everStored : id \notin Ids(store) => id \notin Ids(store')
        /\ (last'.op = "get" /\ last'.id \in everStored /\ last'.id \notin Ids(store)) =>
              last'.status = HTTP_404_NOT_FOUND
      ]_vars

\* C5 witness: a get by the id of a deleted row was answered 404 after another
\* row had been created.
C5_Witness ==
    /\ last.op = "get"
    /\ last.status = HTTP_404_NOT_FOUND
    /\ last.id \in everStored
    /\ store # <<>>

C7_PageByLimitOffset ==
    [][ (/\ last'.op = "query_page"
         /\ last'.limit \in LimitMin..LimitMax
         /\ last'.offset >= OffsetMin) =>
            LET n == Len(store)
            IN  /\ last'.status = HTTP_200_OK
                /\ Len(last'.result) = Min(last'.limit, Max(0, n - last'.offset))
                /\ last'.result =
                      SubSeq(store, last'.offset + 1, Min(last'.offset + last'.limit, n))
                /\ last'.meta.total = n
      ]_vars

\* C8: the list is answered 404 exactly when the table is empty; otherwise it is
\* answered 200 with every row of the table, each exactly once.
C8_ListAll ==
    [][ last'.op = "query" =>
            /\ (last'.status = HTTP_404_NOT_FOUND) <=> (store = <<>>)
            /\ store # <<>> =>
                  /\ last'.status = HTTP_200_OK
                  /\ Len(last'.result) = Len(store)
                  /\ \A i \in DOMAIN store :
                        Cardinality({k \in DOMAIN last'.result :
                                        last'.result[k] = store[i]}) = 1
      ]_vars

\* C8 witness: the list was answered with two rows.
C8_Witness ==
    /\ last.op = "query"
    /\ last.status = HTTP_200_OK
    /\ Len(last.result) = 2

\* the lookup step of a handler keyed by id or by nome
LookupStep(l) ==
    \/ l.op \in {"get", "get_by_nome"}
    \/ /\ l.op \in {"patch", "patch_by_nome", "delete", "delete_by_nome"}
       /\ l.status \in {0, HTTP_404_NOT_FOUND}

Matching(s, l) ==
    IF l.op \in ByIdOps THEN RowsWithId(s, l.id) ELSE RowsWithNome(s, l.nome)

\* C9: the lookup step of a by-key handler answers 404 exactly when no row has
\* the given id (the given exact nome); otherwise the handler goes on with the
\* matching row: a get answers with it, an update or delete holds its id.
C9_NotFoundIffNoRow ==
    [][ LookupStep(last') =>
            /\ (last'.status = HTTP_404_NOT_FOUND) <=> (Matching(store, last') = {})
            /\ Matching(store, last') # {} =>
                  \E i \in Matching(store, last') :
                      IF last'.op \in {"get", "get_by_nome"}
                      THEN last'.status = HTTP_200_OK /\ last'.result = <<store[i]>>
                      ELSE \E r \in Reqs :
                              /\ Stepped(r)
                              /\ reqs'[r].pc = "commit"
                              /\ reqs'[r].op = last'.op
                              /\ reqs'[r].id = store[i]["id"]
      ]_vars

\* C9 witness: a delete by nome found its row while another row was stored.
C9_Witness ==
    /\ last.op = "delete_by_nome"
    /\ last.status = 0
    /\ Len(store) = 2
    /\ \E r \in Reqs : reqs[r].op = "delete_by_nome" /\ reqs[r].id = store[2]["id"]

\* C10: a step that answers 409 or 404, and every step of a read handler,
\* leaves the table as it was.
C10_FailuresAndReadsKeepStore ==
    [][ (last'.status \in {HTTP_404_NOT_FOUND, HTTP_409_CONFLICT} \/ last'.op \in ReadOps)
            => store' = store ]_vars

\* C10 witness: an update by nome was answered 404 on a table that holds a row.
C10_Witness ==
    /\ last.op = "patch_by_nome"
    /\ last.status = HTTP_404_NOT_FOUND
    /\ store # <<>>
====
